---- MODULE Spec2Model ----
(***************************************************************************)
(* Model of the two scripts of the repository.                              *)
(*                                                                         *)
(* init-job-test/check.py: the Kubernetes Job wait poller.                 *)
(*                                                                         *)
(* main() loads the client configuration, finds the jobs that carry the    *)
(* 'app' label of its own pod, and then polls them in rounds: every round  *)
(* classifies each pending job with check_success, sleeps when some job    *)
(* is still pending, and re-fetches the pending jobs.  The run ends with   *)
(* the success report, with sys.exit(1) when the failed list is not        *)
(* empty, or with an uncaught exception when a request to the API fails.   *)
(* Its runs are the behaviours of Spec.                                    *)
(*                                                                         *)
(* ci.py: the Travis script.  On the master branch main() starts the       *)
(* containers, runs the smoke tests, reads the changed files and the tags  *)
(* of the commit message and calls the handler of the event, which builds, *)
(* pushes or updates READMEs with dbuild.  Its runs are the behaviours of  *)
(* CiSpec.                                                                 *)
(***************************************************************************)
EXTENDS Integers, Sequences, FiniteSets

\* ---------------------------------------------------------------- bounds
\* Largest number of jobs the discovery query returns.
MaxJobs == 2
\* Largest configured value of WAIT_RETRIES.
MaxRetries == 3
\* How far below zero a retry counter is followed before it is pinned: a
\* Python int never overflows and every value below zero behaves alike
\* (it is never 0 again), so the counter is kept at -MaxDebt from there on.
MaxDebt == 1

\* Horizon of the history counters (rounds, sleeps, per-job counts): they
\* are exact below Cap and pinned at Cap.  A run with RETRIES >= 1 never
\* gets there, since it has at most RETRIES rounds.
Cap == MaxRetries + MaxDebt + 1

Jobs == 1..MaxJobs

Inc(n) == IF n < Cap THEN n + 1 ELSE n

\* ------------------------------------------------------- job statuses
\* A job status as the API returns it: whether the 'conditions' key is
\* present, the conditions, and the count of succeeded pods.
Cond(t, s) == [type |-> t, status |-> s]

Status(h, c, n) == [hasConditions |-> h, conditions |-> c, succeeded |-> n]

\* still running: no 'conditions' key at all
StRunning == Status(FALSE, <<>>, 0)
\* a Complete condition that is not 'True' (one pod already succeeded)
StCompleteFalse == Status(TRUE, <<Cond("Complete", "False")>>, 1)
\* a Failed/'True' condition, no Complete condition
StFailedTrue == Status(TRUE, <<Cond("Failed", "True")>>, 0)
\* Complete/'True' with succeeded pods
StCompleteOk == Status(TRUE, <<Cond("Complete", "True")>>, 1)
\* Complete/'True' after another condition, more than one succeeded pod
StCompleteOk2 ==
    Status(TRUE, <<Cond("Failed", "False"), Cond("Complete", "True")>>, 2)
\* Complete/'True' with zero succeeded pods
StCompleteZero == Status(TRUE, <<Cond("Complete", "True")>>, 0)

JobStatuses ==
    {StRunning, StCompleteFalse, StFailedTrue, StCompleteOk, StCompleteOk2,
     StCompleteZero}

\* placeholder of the history variables for a job not classified yet
NoStatus == Status(FALSE, <<>>, -1)

Job(n, s) == [name |-> n, status |-> s]

Item(j, r) == [job |-> j, retries |-> r]

\* The configuration failures of the start-up: the credentials cannot be
\* loaded, the namespace file cannot be read (and NAMESPACE is not set),
\* the pod of the run cannot be fetched, the pod has no 'app' label.
Faults == {"none", "credentials", "namespace", "pod", "app_label"}

VARIABLES
    pc,         \* position of main()
    RETRIES,    \* int(os.environ.get('WAIT_RETRIES', '24'))
    fault,      \* what is wrong with the configuration the run finds
    items,      \* list of (job, retries): the jobs of the current round
    remaining,  \* list of (job, retries): the jobs pending after this round
    failed,     \* list of jobs classified Failed
    i,          \* position of the running for loop in its list
    exitCode,   \* exit code of the process, -1 while it runs
    succeeded,  \* names printed as 'Job %s succeeded'
    pprinted,   \* names of the jobs whose details were printed
    rounds,     \* history: polling rounds started
    sleeps,     \* history: time.sleep(RETRY_DELAY) calls
    fetches,    \* history: per-job status fetches, by job name
    obs,        \* history: non-terminal observations, by job name
    seen,       \* history: last status classified, its round and the
                \* retries check_success returned, by job name
    solo        \* history: each job's verdict as computed from its own
                \* observations alone

\* what main() reads and never writes
env == <<RETRIES, fault>>

\* the variables of ci.py
VARIABLES
    cpc,        \* position of main() of ci.py
    travis,     \* the TRAVIS_* and DOCKER_HUB_* variables of os.environ
    files,      \* get_changed_files(): the changed files
    modules,    \* get_dirty_modules(files): list of the dirty modules
    tags,       \* get_message_tags(): list of (tag, arg)
    cmds,       \* history: the steps started, with their return codes
    ciExit      \* exit code of ci.py, -1 while it runs

ciVars == <<cpc, travis, files, modules, tags, cmds, ciExit>>

vars ==
    <<pc, RETRIES, fault, items, remaining, failed, i, exitCode, succeeded,
      pprinted, rounds, sleeps, fetches, obs, seen, solo, cpc, travis, files,
      modules, tags, cmds, ciExit>>

hist == <<rounds, sleeps, fetches, obs, seen, solo>>

\* ------------------------------------------------------ check_success
\* retries - 1, pinned at -MaxDebt
Minus1(retries) == IF retries > -MaxDebt THEN retries - 1 ELSE retries

\* str(condition.status) == 'True': the status is kept as its string
is_condition_complete(condition) ==
    condition.type = "Complete" /\ condition.status = "True"

\* check_success as it would be if only a job without conditions used
\* up a retry
check_success_keep_retries(job, retries) ==
    IF ~job.status.hasConditions
    THEN [success |-> FALSE, retries |-> Minus1(retries)]
    ELSE LET complete == SelectSeq(job.status.conditions,
                                   is_condition_complete)
         IN  IF complete = <<>>
             THEN [success |-> FALSE, retries |-> retries]
             ELSE IF job.status.succeeded > 0
                  THEN [success |-> TRUE, retries |-> retries]
                  ELSE [success |-> FALSE, retries |-> 0]

\* check_success as it would be if a Failed/'True' condition ended the
\* retries of the job
check_success_failed_condition(job, retries) ==
    IF ~job.status.hasConditions
    THEN [success |-> FALSE, retries |-> Minus1(retries)]
    ELSE LET complete == SelectSeq(job.status.conditions,
                                   is_condition_complete)
         IN  IF complete = <<>>
             THEN IF \E k \in 1..Len(job.status.conditions) :
                        /\ job.status.conditions[k].type = "Failed"
                        /\ job.status.conditions[k].status = "True"
                  THEN [success |-> FALSE, retries |-> 0]
                  ELSE [success |-> FALSE, retries |-> Minus1(retries)]
             ELSE IF job.status.succeeded > 0
                  THEN [success |-> TRUE, retries |-> retries]
                  ELSE [success |-> FALSE, retries |-> 0]

\* check_success as it would be if a Complete job without successes only
\* consumed a retry instead of ending its retries
check_success_no_force(job, retries) ==
    IF ~job.status.hasConditions
    THEN [success |-> FALSE, retries |-> Minus1(retries)]
    ELSE LET complete == SelectSeq(job.status.conditions,
                                   is_condition_complete)
         IN  IF complete = <<>>
             THEN [success |-> FALSE, retries |-> Minus1(retries)]
             ELSE IF job.status.succeeded > 0
                  THEN [success |-> TRUE, retries |-> retries]
                  ELSE [success |-> FALSE, retries |-> Minus1(retries)]

\* check_success as it would be with the retry consumed before the job is
\* looked at: a job seen Complete on its last attempt is not a success
check_success_last_attempt(job, retries) ==
    IF ~job.status.hasConditions
    THEN [success |-> FALSE, retries |-> Minus1(retries)]
    ELSE LET complete == SelectSeq(job.status.conditions,
                                   is_condition_complete)
         IN  IF complete = <<>>
             THEN [success |-> FALSE, retries |-> Minus1(retries)]
             ELSE IF job.status.succeeded > 0 /\ retries # 1
                  THEN [success |-> TRUE, retries |-> retries]
                  ELSE [success |-> FALSE, retries |-> 0]

\* The script is Python 2 (print_function import, tab indentation of
\* lines 70 and 73): filter() returns a list, so 'not complete' tests
\* that no condition passed; 'if job.status.succeeded' is succeeded > 0.
check_success(job, retries) ==
    IF ~job.status.hasConditions
    THEN [success |-> FALSE, retries |-> Minus1(retries)]
    ELSE LET complete == SelectSeq(job.status.conditions,
                                   is_condition_complete)
         IN  IF complete = <<>>
             THEN [success |-> FALSE, retries |-> Minus1(retries)]
             ELSE IF job.status.succeeded > 0
                  THEN [success |-> TRUE, retries |-> retries]
                  ELSE [success |-> FALSE, retries |-> 0]

\* a status that check_success treats as terminal
IsComplete(s) ==
    s.hasConditions /\ SelectSeq(s.conditions, is_condition_complete) # <<>>

\* ------------------------------------------------------------- Init
\* None of Python
None == ""

\* ci.py is not running
CiIdle ==
    /\ cpc = "idle"
    /\ travis = [branch |-> "master", event |-> "other", secure |-> "false",
                 range |-> FALSE, creds |-> FALSE]
    /\ files = {}
    /\ modules = <<>>
    /\ tags = <<>>
    /\ cmds = <<>>
    /\ ciExit = -1

Init ==
    /\ CiIdle
    /\ pc = "load_config"
    /\ RETRIES \in 0..MaxRetries
    /\ fault \in Faults
    /\ items = <<>>
    /\ remaining = <<>>
    /\ failed = <<>>
    /\ i = 1
    /\ exitCode = -1
    /\ succeeded = {}
    /\ pprinted = <<>>
    /\ rounds = 0
    /\ sleeps = 0
    /\ fetches = [j \in Jobs |-> 0]
    /\ obs = [j \in Jobs |-> 0]
    /\ seen = [j \in Jobs |-> [status |-> NoStatus, round |-> 0, retries |-> 0]]
    /\ solo = [j \in Jobs |-> [verdict |-> "None", retries |-> 0, round |-> 0]]

\* An uncaught exception: the interpreter prints the traceback and exits 1.
Raise ==
    /\ pc' = "aborted"
    /\ exitCode' = 1
    /\ UNCHANGED <<env, ciVars, items, remaining, failed, i, succeeded, pprinted>>
    /\ UNCHANGED hist

Goto(l) ==
    /\ pc' = l
    /\ UNCHANGED <<env, ciVars, items, remaining, failed, i, exitCode, succeeded,
                   pprinted>>
    /\ UNCHANGED hist

\* ---------------------------------------------------------- start-up
\* client.load_kube_config() / client.load_cluster_config()
LoadConfig ==
    /\ pc = "load_config"
    /\ IF fault = "credentials" THEN Raise ELSE Goto("namespace")

\* get_current_namespace as it would be with a fallback namespace when
\* the file cannot be read
GetCurrentNamespace_fallback ==
    /\ pc = "namespace"
    /\ Goto("pod")

\* get_current_namespace(): NAMESPACE of the environment, else the file
\* of the service account; open() raises when it cannot be read
GetCurrentNamespace ==
    /\ pc = "namespace"
    /\ IF fault = "namespace" THEN Raise ELSE Goto("pod")

\* get_current_pod() and the GET of the pod
GetPod ==
    /\ pc = "pod"
    /\ IF fault = "pod" THEN Raise ELSE Goto("app")

\* pod.metadata.labels['app']
GetAppLabel ==
    /\ pc = "app"
    /\ IF fault = "app_label" THEN Raise ELSE Goto("discover")

\* --------------------------------------------------------- discovery
\* The verdict of one job as its own observations alone determine it:
\* t is the job's tracker, s the status observed now.
SoloStep(t, s) ==
    IF t.verdict # "Pending"
    THEN t
    ELSE LET c == check_success(Job(0, s), t.retries)
         IN  [verdict |-> IF c.success THEN "Succeeded"
                          ELSE IF c.retries = 0 THEN "Failed"
                          ELSE "Pending",
              retries |-> c.retries,
              round   |-> Inc(t.round)]

\* Discover as it would be with sys.exit(1) after 'No jobs!'
Discover_exit_1 ==
    /\ pc = "discover"
    /\ \E n \in 0..MaxJobs :
         \E ss \in [1..n -> JobStatuses] :
            /\ items' = [k \in 1..n |-> Item(Job(k, ss[k]), RETRIES)]
            /\ solo' = [j \in Jobs |->
                          IF j <= n
                          THEN [verdict |-> "Pending", retries |-> RETRIES,
                                round |-> 0]
                          ELSE solo[j]]
            /\ IF n = 0
               THEN pc' = "exited" /\ exitCode' = 1
               ELSE pc' = "while" /\ exitCode' = exitCode
    /\ failed' = <<>>
    /\ UNCHANGED <<env, ciVars, remaining, i, succeeded, pprinted, rounds,
                   sleeps, fetches, obs, seen>>

\* The GET of the job list and items = [(item, RETRIES) ...]; the jobs are
\* named 1..n in the order of the answer.  'No jobs!' exits with 0.
Discover ==
    /\ pc = "discover"
    /\ \E n \in 0..MaxJobs :
         \E ss \in [1..n -> JobStatuses] :
            /\ items' = [k \in 1..n |-> Item(Job(k, ss[k]), RETRIES)]
            /\ solo' = [j \in Jobs |->
                          IF j <= n
                          THEN [verdict |-> "Pending", retries |-> RETRIES,
                                round |-> 0]
                          ELSE solo[j]]
            /\ IF n = 0
               THEN pc' = "exited" /\ exitCode' = 0
               ELSE pc' = "while" /\ exitCode' = exitCode
    /\ failed' = <<>>
    /\ UNCHANGED <<env, ciVars, remaining, i, succeeded, pprinted, rounds,
                   sleeps, fetches, obs, seen>>

\* The GET of the job list fails.
DiscoverFail ==
    /\ pc = "discover"
    /\ Raise

\* ------------------------------------------------------ polling loop
\* While as it would be if the loop stopped at the first failed job
While_stop_on_failed ==
    /\ pc = "while"
    /\ IF items # <<>> /\ failed = <<>>
       THEN /\ pc' = "for_check"
            /\ remaining' = <<>>
            /\ i' = 1
            /\ rounds' = Inc(rounds)
       ELSE /\ pc' = "report"
            /\ UNCHANGED <<remaining, i, rounds>>
    /\ UNCHANGED <<env, ciVars, items, failed, exitCode, succeeded, pprinted,
                   sleeps, fetches, obs, seen, solo>>

\* while items: ... remaining = []
While ==
    /\ pc = "while"
    /\ IF items # <<>>
       THEN /\ pc' = "for_check"
            /\ remaining' = <<>>
            /\ i' = 1
            /\ rounds' = Inc(rounds)
       ELSE /\ pc' = "report"
            /\ UNCHANGED <<remaining, i, rounds>>
    /\ UNCHANGED <<env, ciVars, items, failed, exitCode, succeeded, pprinted,
                   sleeps, fetches, obs, seen, solo>>

\* CheckJob as it would be if a succeeded job were kept for the next round
CheckJob_keep_succeeded ==
    /\ pc = "for_check"
    /\ i <= Len(items)
    /\ LET job == items[i].job
           c   == check_success(job, items[i].retries)
           n   == job.name
       IN  /\ IF c.success
              THEN /\ succeeded' = succeeded \cup {n}
                   /\ remaining' = Append(remaining, Item(job, c.retries))
                   /\ UNCHANGED failed
              ELSE IF c.retries = 0
              THEN /\ failed' = Append(failed, job)
                   /\ UNCHANGED <<succeeded, remaining>>
              ELSE /\ remaining' = Append(remaining, Item(job, c.retries))
                   /\ UNCHANGED <<succeeded, failed>>
           /\ obs' = [obs EXCEPT ![n] =
                        IF IsComplete(job.status) THEN @ ELSE Inc(@)]
           /\ seen' = [seen EXCEPT ![n] =
                         [status |-> job.status, round |-> rounds,
                          retries |-> c.retries]]
           /\ solo' = [solo EXCEPT ![n] = SoloStep(@, job.status)]
    /\ i' = i + 1
    /\ UNCHANGED <<pc, env, ciVars, items, exitCode, pprinted, rounds, sleeps,
                   fetches>>

\* One pass of 'for job, retries in items': classify items[i].
\* 'retries is 0' compares a small int: it is retries == 0.
CheckJob ==
    /\ pc = "for_check"
    /\ i <= Len(items)
    /\ LET job == items[i].job
           c   == check_success(job, items[i].retries)
           n   == job.name
       IN  /\ IF c.success
              THEN /\ succeeded' = succeeded \cup {n}
                   /\ UNCHANGED <<failed, remaining>>
              ELSE IF c.retries = 0
              THEN /\ failed' = Append(failed, job)
                   /\ UNCHANGED <<succeeded, remaining>>
              ELSE /\ remaining' = Append(remaining, Item(job, c.retries))
                   /\ UNCHANGED <<succeeded, failed>>
           /\ obs' = [obs EXCEPT ![n] =
                        IF IsComplete(job.status) THEN @ ELSE Inc(@)]
           /\ seen' = [seen EXCEPT ![n] =
                         [status |-> job.status, round |-> rounds,
                          retries |-> c.retries]]
           /\ solo' = [solo EXCEPT ![n] = SoloStep(@, job.status)]
    /\ i' = i + 1
    /\ UNCHANGED <<pc, env, ciVars, items, exitCode, pprinted, rounds, sleeps,
                   fetches>>

\* End of the for loop with jobs remaining: time.sleep(RETRY_DELAY), then
\* items = [].
Sleep ==
    /\ pc = "for_check"
    /\ i > Len(items)
    /\ remaining # <<>>
    /\ sleeps' = Inc(sleeps)
    /\ items' = <<>>
    /\ i' = 1
    /\ pc' = "for_refresh"
    /\ UNCHANGED <<env, ciVars, remaining, failed, exitCode, succeeded, pprinted,
                   rounds, fetches, obs, seen, solo>>

\* NoSleep as it would be if the sleep were not guarded by 'if remaining'
NoSleep_sleep_anyway ==
    /\ pc = "for_check"
    /\ i > Len(items)
    /\ remaining = <<>>
    /\ sleeps' = Inc(sleeps)
    /\ items' = <<>>
    /\ i' = 1
    /\ pc' = "for_refresh"
    /\ UNCHANGED <<env, ciVars, remaining, failed, exitCode, succeeded, pprinted,
                   rounds, fetches, obs, seen, solo>>

\* End of the for loop with nothing remaining: no sleep, items = [].
NoSleep ==
    /\ pc = "for_check"
    /\ i > Len(items)
    /\ remaining = <<>>
    /\ items' = <<>>
    /\ i' = 1
    /\ pc' = "for_refresh"
    /\ UNCHANGED <<env, ciVars, remaining, failed, exitCode, succeeded, pprinted>>
    /\ UNCHANGED hist

\* RefreshJob as it would be if the refreshed job got a fresh budget
RefreshJob_fresh_budget ==
    /\ pc = "for_refresh"
    /\ i <= Len(remaining)
    /\ \E s \in JobStatuses :
          items' = Append(items, Item(Job(remaining[i].job.name, s), RETRIES))
    /\ fetches' = [fetches EXCEPT ![remaining[i].job.name] = Inc(@)]
    /\ i' = i + 1
    /\ UNCHANGED <<pc, env, ciVars, remaining, failed, exitCode, succeeded,
                   pprinted, rounds, sleeps, obs, seen, solo>>

\* One pass of 'for job, retries in remaining': GET the job again and
\* append it to items with the retries it has left.
RefreshJob ==
    /\ pc = "for_refresh"
    /\ i <= Len(remaining)
    /\ \E s \in JobStatuses :
          items' = Append(items, Item(Job(remaining[i].job.name, s),
                                      remaining[i].retries))
    /\ fetches' = [fetches EXCEPT ![remaining[i].job.name] = Inc(@)]
    /\ i' = i + 1
    /\ UNCHANGED <<pc, env, ciVars, remaining, failed, exitCode, succeeded,
                   pprinted, rounds, sleeps, obs, seen, solo>>

\* The GET of a job fails (unreachable, timeout, not found): client.get
\* raises and nothing in main() catches it.
RefreshFail ==
    /\ pc = "for_refresh"
    /\ i <= Len(remaining)
    /\ Raise

EndRefresh ==
    /\ pc = "for_refresh"
    /\ i > Len(remaining)
    /\ Goto("while")

\* Report as it would be without the sys.exit(1)
Report_no_exit ==
    /\ pc = "report"
    /\ IF failed # <<>>
       THEN pprinted' = Append(pprinted, failed[1].name)
       ELSE pprinted' = pprinted
    /\ exitCode' = 0
    /\ pc' = "exited"
    /\ UNCHANGED <<env, ciVars, items, remaining, failed, i, succeeded>>
    /\ UNCHANGED hist

\* if failed: print, pprint the first failed job, sys.exit(1);
\* else 'All jobs completed successfully.' and main() returns.
Report ==
    /\ pc = "report"
    /\ IF failed # <<>>
       THEN /\ pprinted' = Append(pprinted, failed[1].name)
            /\ exitCode' = 1
       ELSE /\ pprinted' = pprinted
            /\ exitCode' = 0
    /\ pc' = "exited"
    /\ UNCHANGED <<env, ciVars, items, remaining, failed, i, succeeded>>
    /\ UNCHANGED hist

Next ==
    \/ LoadConfig
    \/ GetCurrentNamespace
    \/ GetPod
    \/ GetAppLabel
    \/ Discover
    \/ DiscoverFail
    \/ While
    \/ CheckJob
    \/ Sleep
    \/ NoSleep
    \/ RefreshJob
    \/ RefreshFail
    \/ EndRefresh
    \/ Report

Spec == Init /\ [][Next]_vars

\* The interpreter runs main() to its end: every enabled step is taken.
FairSpec == Spec /\ WF_vars(Next)

\* ================================================================ ci.py
\* ---------------------------------------------------------------- bounds
\* Largest number of tag lines in the commit message.
MaxTags == 2

\* ---------------------------------------------------------------- inputs
\* Return codes of a subprocess.
ReturnCodes == {0, 1, 2}

\* A path is the sequence of its components: os.path.sep is in it when
\* it has more than one, and f.split(os.path.sep, 1) is Head and Tail.
FileUniverse ==
    {<<"a", "build.yml">>, <<"a", "README.md">>, <<"b", "sub", "build.yml">>,
     <<"docs", "build.yml">>, <<"build.yml">>}

\* the directories of the checkout that hold a Dockerfile, a build.yml
HasDockerfile == {"a", "b"}

HasBuildYml == {"a", "b", "docs"}

\* what TAG_REGEX gives for the tag lines: (tag, arg), arg None without
\* an argument
TagUniverse ==
    {<<"push", None>>, <<"push", "a">>, <<"push", "c">>, <<"readme", None>>,
     <<"readme", "b">>}

TagLists == UNION {[1..n -> TagUniverse] : n \in 0..MaxTags}

Range(q) == {q[k] : k \in 1..Len(q)}

\* the lists without repetition of the elements of a set
ListsOf(S) ==
    {q \in [1..Cardinality(S) -> S] : \A x \in S : \E k \in DOMAIN q : q[k] = x}

\* the poller is not running
PollerIdle ==
    /\ pc = "idle"
    /\ RETRIES = 0
    /\ fault = "none"
    /\ items = <<>>
    /\ remaining = <<>>
    /\ failed = <<>>
    /\ i = 1
    /\ exitCode = -1
    /\ succeeded = {}
    /\ pprinted = <<>>
    /\ rounds = 0
    /\ sleeps = 0
    /\ fetches = [j \in Jobs |-> 0]
    /\ obs = [j \in Jobs |-> 0]
    /\ seen = [j \in Jobs |-> [status |-> NoStatus, round |-> 0, retries |-> 0]]
    /\ solo = [j \in Jobs |-> [verdict |-> "None", retries |-> 0, round |-> 0]]

pollerVars ==
    <<pc, env, items, remaining, failed, i, exitCode, succeeded, pprinted,
      hist>>

CiInit ==
    /\ PollerIdle
    /\ cpc = "main"
    /\ travis \in [branch : {"master", "dev"},
                   event  : {"pull_request", "push", "other"},
                   secure : {"true", "false"},
                   range  : BOOLEAN,
                   creds  : BOOLEAN]
    /\ files = {}
    /\ modules = <<>>
    /\ tags = <<>>
    /\ cmds = <<>>
    /\ ciExit = -1

\* ------------------------------------------------------- pure functions
get_dirty_modules(dirty_files) ==
    {f[1] : f \in {g \in dirty_files : Len(g) > 1}}
        \cap HasDockerfile \cap HasBuildYml

\* get_dirty_for_module as it would be if it compared file names instead
\* of paths relative to the module
get_dirty_for_module_basename(fs, module) ==
    {<<f[Len(f)]>> : f \in {g \in fs : Len(g) > 1 /\ g[1] = module}}
        \cup (IF module = None THEN {g \in fs : Len(g) = 1} ELSE {})

\* the paths, relative to the module, of the files of the module (the
\* top-level files when module is None); only membership is asked of the
\* result, so it is kept as a set
get_dirty_for_module(fs, module) ==
    {Tail(f) : f \in {g \in fs : Len(g) > 1 /\ g[1] = module}}
        \cup (IF module = None THEN {g \in fs : Len(g) = 1} ELSE {})

\* the arguments of the tags named t, in their order
TagArgs(tgs, t) ==
    LET Named(u) == u[1] = t /\ u[2] # None
        sel == SelectSeq(tgs, Named)
    IN  [k \in 1..Len(sel) |-> sel[k][2]]

\* handle_push: modules_to_push when the two for loops are done
modules_to_push(fs, mods, tgs) ==
    LET force_push == \E k \in 1..Len(tgs) : tgs[k] = <<"push", None>>
        Pushed(m) ==
            force_push \/ <<"build.yml">> \in get_dirty_for_module(fs, m)
    IN  TagArgs(tgs, "push") \o SelectSeq(mods, Pushed)

\* handle_push: modules_to_readme when the two for loops are done
modules_to_readme(fs, mods, tgs) ==
    LET force_readme == \E k \in 1..Len(tgs) : tgs[k] = <<"readme", None>>
        Readme(m) ==
            force_readme \/ <<"README.md">> \in get_dirty_for_module(fs, m)
    IN  TagArgs(tgs, "readme") \o SelectSeq(mods, Readme)

\* -------------------------------------------------------------- steps
Step(c, a, rc) == [cmd |-> c, args |-> a, rc |-> rc]

\* Popen as it would be without the test of p.wait()
Popen_ignore_failure(c, a, next) ==
    \E rc \in ReturnCodes :
        /\ cmds' = Append(cmds, Step(c, a, rc))
        /\ cpc' = next
        /\ ciExit' = ciExit

\* p = subprocess.Popen(...); if p.wait() != 0: sys.exit(p.returncode)
Popen(c, a, next) ==
    \E rc \in ReturnCodes :
        /\ cmds' = Append(cmds, Step(c, a, rc))
        /\ IF rc = 0
           THEN cpc' = next /\ ciExit' = ciExit
           ELSE cpc' = "exited" /\ ciExit' = rc

\* the git calls: a non-zero return code raises SubprocessException,
\* which nothing catches: traceback and exit code 1
Git(c, next) ==
    \E rc \in ReturnCodes :
        /\ cmds' = Append(cmds, Step(c, <<>>, rc))
        /\ IF rc = 0
           THEN cpc' = next /\ ciExit' = ciExit
           ELSE cpc' = "exited" /\ ciExit' = 1

\* if TRAVIS_BRANCH != 'master': return
CheckBranch ==
    /\ cpc = "main"
    /\ IF travis.branch # "master"
       THEN cpc' = "exited" /\ ciExit' = 0
       ELSE cpc' = "compose" /\ ciExit' = ciExit
    /\ UNCHANGED <<travis, files, modules, tags, cmds>>
    /\ UNCHANGED pollerVars

RunDockerCompose ==
    /\ cpc = "compose"
    /\ Popen("docker-compose up", <<>>, "docker_ps")
    /\ UNCHANGED <<travis, files, modules, tags>>
    /\ UNCHANGED pollerVars

\* main(): docker ps
DockerPs ==
    /\ cpc = "docker_ps"
    /\ Popen("docker ps", <<>>, "logs_keystone")
    /\ UNCHANGED <<travis, files, modules, tags>>
    /\ UNCHANGED pollerVars

\* main(): docker-compose logs keystone
LogsKeystone ==
    /\ cpc = "logs_keystone"
    /\ Popen("docker-compose logs keystone", <<>>, "wait")
    /\ UNCHANGED <<travis, files, modules, tags>>
    /\ UNCHANGED pollerVars

\* time.sleep(90)
Wait ==
    /\ cpc = "wait"
    /\ cmds' = Append(cmds, Step("sleep 90", <<>>, 0))
    /\ cpc' = "smoke1"
    /\ UNCHANGED <<travis, files, modules, tags, ciExit>>
    /\ UNCHANGED pollerVars

SmokeCommands ==
    <<"docker ps", "docker-compose logs keystone",
      "docker-compose logs monasca", "docker network ls",
      "docker run smoke-tests", "docker ps">>

SmokePc ==
    <<"smoke1", "smoke2", "smoke3", "smoke4", "smoke5", "smoke6", "files">>

\* run_smoke_tests(): its six subprocesses, one after the other
RunSmokeTests ==
    /\ \E n \in 1..Len(SmokeCommands) :
          /\ cpc = SmokePc[n]
          /\ Popen(SmokeCommands[n], <<>>, SmokePc[n + 1])
    /\ UNCHANGED <<travis, files, modules, tags>>
    /\ UNCHANGED pollerVars

\* get_changed_files(): no git call without TRAVIS_COMMIT_RANGE
GetChangedFiles ==
    /\ cpc = "files"
    /\ IF travis.range
       THEN /\ Git("git diff", "modules")
            /\ IF cpc' = "modules"
               THEN files' \in SUBSET FileUniverse
               ELSE files' = files
       ELSE /\ files' = {}
            /\ cpc' = "modules"
            /\ UNCHANGED <<cmds, ciExit>>
    /\ UNCHANGED <<travis, modules, tags>>
    /\ UNCHANGED pollerVars

\* modules = get_dirty_modules(files): list(dirty) of a set, in some order
GetDirtyModules ==
    /\ cpc = "modules"
    /\ modules' \in ListsOf(get_dirty_modules(files))
    /\ cpc' = "tags"
    /\ UNCHANGED <<travis, files, tags, cmds, ciExit>>
    /\ UNCHANGED pollerVars

\* get_message_tags(): no git call without TRAVIS_COMMIT_RANGE
GetMessageTags ==
    /\ cpc = "tags"
    /\ IF travis.range
       THEN /\ Git("git log", "dispatch")
            /\ IF cpc' = "dispatch"
               THEN tags' \in TagLists
               ELSE tags' = tags
       ELSE /\ tags' = <<>>
            /\ cpc' = "dispatch"
            /\ UNCHANGED <<cmds, ciExit>>
    /\ UNCHANGED <<travis, files, modules>>
    /\ UNCHANGED pollerVars

\* handle_pull_request -> run_build
HandlePullRequest ==
    /\ cpc = "dispatch"
    /\ travis.event = "pull_request"
    /\ IF modules # <<>>
       THEN Popen("dbuild build", modules, "returned")
       ELSE cpc' = "returned" /\ UNCHANGED <<cmds, ciExit>>
    /\ UNCHANGED <<travis, files, modules, tags>>
    /\ UNCHANGED pollerVars

\* handle_other
HandleOther ==
    /\ cpc = "dispatch"
    /\ travis.event \notin {"pull_request", "push"}
    /\ cpc' = "returned"
    /\ UNCHANGED <<travis, files, modules, tags, cmds, ciExit>>
    /\ UNCHANGED pollerVars

\* handle_push up to 'if modules_to_push:'
HandlePush ==
    /\ cpc = "dispatch"
    /\ travis.event = "push"
    /\ cpc' = IF modules_to_push(files, modules, tags) # <<>>
              THEN "run_push" ELSE "handle_readme"
    /\ UNCHANGED <<travis, files, modules, tags, cmds, ciExit>>
    /\ UNCHANGED pollerVars

\* run_push up to the push command: return without push permissions,
\* docker login when user and password are set (exit 1 when it fails)
RunPushLogin ==
    /\ cpc = "run_push"
    /\ IF travis.secure # "true"
       THEN cpc' = "handle_readme" /\ UNCHANGED <<cmds, ciExit>>
       ELSE IF travis.creds
       THEN \E rc \in ReturnCodes :
               /\ cmds' = Append(cmds, Step("docker login", <<>>, rc))
               /\ IF rc = 0
                  THEN cpc' = "push" /\ ciExit' = ciExit
                  ELSE cpc' = "exited" /\ ciExit' = 1
       ELSE cpc' = "push" /\ UNCHANGED <<cmds, ciExit>>
    /\ UNCHANGED <<travis, files, modules, tags>>
    /\ UNCHANGED pollerVars

\* run_push: the push command
RunPush ==
    /\ cpc = "push"
    /\ Popen("dbuild push", modules_to_push(files, modules, tags),
             "handle_readme")
    /\ UNCHANGED <<travis, files, modules, tags>>
    /\ UNCHANGED pollerVars

\* handle_push from 'if modules_to_readme:' on, and run_readme
RunReadme ==
    /\ cpc = "handle_readme"
    /\ IF /\ modules_to_readme(files, modules, tags) # <<>>
          /\ travis.secure = "true"
       THEN Popen("dbuild readme", modules_to_readme(files, modules, tags),
                  "returned")
       ELSE cpc' = "returned" /\ UNCHANGED <<cmds, ciExit>>
    /\ UNCHANGED <<travis, files, modules, tags>>
    /\ UNCHANGED pollerVars

\* main() returns: exit code 0
Return ==
    /\ cpc = "returned"
    /\ cpc' = "exited"
    /\ ciExit' = 0
    /\ UNCHANGED <<travis, files, modules, tags, cmds>>
    /\ UNCHANGED pollerVars

CiNext ==
    \/ CheckBranch
    \/ RunDockerCompose
    \/ DockerPs
    \/ LogsKeystone
    \/ Wait
    \/ RunSmokeTests
    \/ GetChangedFiles
    \/ GetDirtyModules
    \/ GetMessageTags
    \/ HandlePullRequest
    \/ HandleOther
    \/ HandlePush
    \/ RunPushLogin
    \/ RunPush
    \/ RunReadme
    \/ Return

CiSpec == CiInit /\ [][CiNext]_vars

\* ------------------------------------------------------------ views
Names(list) == {list[k].job.name : k \in 1..Len(list)}

FailedNames == {failed[k].name : k \in 1..Len(failed)}

\* the jobs main() still has to classify or to re-fetch
Active ==
    IF pc = "for_check"
    THEN {items[k].job.name : k \in i..Len(items)} \cup Names(remaining)
    ELSE IF pc = "for_refresh"
    THEN Names(remaining)
    ELSE Names(items)

Discovered == {j \in Jobs : solo[j].verdict # "None"}

Terminated == pc \in {"exited", "aborted"}

TypeOK ==
    /\ pc \in {"load_config", "namespace", "pod", "app", "discover", "while",
               "for_check", "for_refresh", "report", "exited", "aborted"}
    /\ RETRIES \in 0..MaxRetries
    /\ fault \in Faults
    /\ exitCode \in {-1, 0, 1}
    /\ rounds \in 0..Cap /\ sleeps \in 0..Cap
    /\ \A k \in 1..Len(items) : items[k].retries \in -MaxDebt..MaxRetries
    /\ succeeded \subseteq Jobs

\* the jobs whose last classified status was terminal (Complete/'True')
SawComplete(j) == seen[j].round > 0 /\ IsComplete(seen[j].status)

\* the jobs classified at least once, never with a Complete/'True' status
OnlyRunning(j) == seen[j].round > 0 /\ ~IsComplete(seen[j].status)

\* main() left the while loop and reported
ExitedAfterPolling == pc = "exited" /\ rounds > 0

\* positions of main() before the job list is known
StartUp == {"load_config", "namespace", "pod", "app", "discover"}

\* positions of main() from the while loop on, without an exception
Polling == {"while", "for_check", "for_refresh", "report", "exited"}

\* the verdict main() has given a job: the 'succeeded' print, the failed
\* list, or none yet
Verdict(j) ==
    IF j \in succeeded THEN "Succeeded"
    ELSE IF j \in FailedNames THEN "Failed"
    ELSE "Pending"

\* the positions of main() a run with the given fault can be in: up to
\* the statement that raises
UpTo(f) ==
    CASE f = "credentials" -> {"load_config"}
      [] f = "namespace"   -> {"load_config", "namespace"}
      [] f = "pod"         -> {"load_config", "namespace", "pod"}
      [] f = "app_label"   -> {"load_config", "namespace", "pod", "app"}

\* the steps of main() of ci.py before the changed files are read
MainSteps ==
    <<"docker-compose up", "docker ps", "docker-compose logs keystone",
      "sleep 90">> \o SmokeCommands

\* the place of the later commands in the order of main()
TailRank(c) ==
    CASE c = "git diff"      -> 1
      [] c = "git log"       -> 2
      [] c = "dbuild build"  -> 3
      [] c = "docker login"  -> 3
      [] c = "dbuild push"   -> 4
      [] c = "dbuild readme" -> 5
      [] OTHER               -> 0

\* the commands that fail with exit code 1 whatever their return code:
\* the git calls (SubprocessException) and docker login (sys.exit(1))
ExitsWithOne == {"git diff", "git log", "docker login"}

\* ================================================================ claims

\* C1: for every non-negative RETRIES, every set of discovered jobs and
\* every sequence of statuses, the run eventually ends: the polling loop
\* reaches an empty active set and main() reports, unless a request to
\* the API raised.  Checked under FairSpec.
C1_Terminates == <>Terminated

\* C2: when the run ends after polling, the exit code is 1 exactly when
\* some discovered job is in the failed list, and 0 exactly when every
\* discovered job was reported Succeeded; a job in the failed list was
\* Complete with zero successes or used up its RETRIES observations.
C2_ExitCode ==
    ExitedAfterPolling =>
        /\ exitCode \in {0, 1}
        /\ exitCode = 1 <=> FailedNames # {}
        /\ exitCode = 0 <=> Discovered \subseteq succeeded
        /\ \A j \in FailedNames :
              \/ SawComplete(j) /\ seen[j].status.succeeded = 0
              \/ OnlyRunning(j) /\ obs[j] = RETRIES

C2_Witness ==
    /\ ExitedAfterPolling
    /\ exitCode = 1
    /\ succeeded # {}
    /\ \E j \in FailedNames : OnlyRunning(j)

C2_WitnessZero ==
    /\ ExitedAfterPolling
    /\ exitCode = 0
    /\ Cardinality(succeeded) = MaxJobs
    /\ rounds > 1

\* C3: a job observed Complete/'True' with succeeded > 0 is reported
\* Succeeded by the classification that observes it, whatever retries it
\* had left, and is neither in the failed list nor pending afterwards.
C3_CompleteSucceeds ==
    \A j \in Jobs :
        (SawComplete(j) /\ seen[j].status.succeeded > 0) =>
            /\ j \in succeeded
            /\ j \notin FailedNames
            /\ j \notin Active
            /\ solo[j].round = seen[j].round

\* the case of one attempt left: RETRIES - 1 running observations first
C3_Witness ==
    \E j \in Jobs :
        /\ SawComplete(j) /\ seen[j].status.succeeded > 0
        /\ RETRIES >= 2
        /\ obs[j] = RETRIES - 1
        /\ seen[j].retries = 1
        /\ j \in succeeded

\* C4: a job observed Complete/'True' with succeeded = 0 is put in the
\* failed list by the classification that observes it, with its retries
\* set to 0 whatever was left, and from then on it is neither pending,
\* nor fetched, nor classified again.
C4_State ==
    \A j \in Jobs :
        (SawComplete(j) /\ seen[j].status.succeeded = 0) =>
            /\ j \in FailedNames
            /\ seen[j].retries = 0
            /\ j \notin succeeded
            /\ j \notin Active
            /\ solo[j].round = seen[j].round

C4_Step ==
    \A j \in FailedNames :
        /\ j \in FailedNames'
        /\ seen'[j] = seen[j]
        /\ obs'[j] = obs[j]
        /\ fetches'[j] = fetches[j]

C4_FailsAtOnce == []C4_State /\ [][C4_Step]_vars

\* budget was left, and the other job went on to a later round
C4_Witness ==
    \E j \in Jobs :
        /\ SawComplete(j) /\ seen[j].status.succeeded = 0
        /\ j \in FailedNames
        /\ obs[j] < RETRIES - 1
        /\ rounds > seen[j].round
        /\ pc = "exited"

\* C5: a job that never shows Complete/'True' is put in the failed list
\* by its RETRIES-th non-terminal observation: it has at most RETRIES of
\* them, it is pending while it has fewer, and it is in the failed list
\* exactly when it has RETRIES.
C5_ExhaustsAfterRetries ==
    \A j \in Jobs :
        OnlyRunning(j) =>
            /\ obs[j] <= RETRIES
            /\ j \in FailedNames <=> obs[j] = RETRIES
            /\ (obs[j] < RETRIES /\ ~Terminated) => j \in Active

\* C5 for a positive budget (the part of C5 the code satisfies)
C5_PositiveBudget == RETRIES >= 1 => C5_ExhaustsAfterRetries

\* C6: when discovery returns no job the run exits with 0 at once: no
\* round, no sleep, no fetch of a job.
C6_NoJobs ==
    (pc \notin StartUp \cup {"aborted"} /\ Discovered = {}) =>
        /\ pc = "exited"
        /\ exitCode = 0
        /\ rounds = 0
        /\ sleeps = 0
        /\ \A j \in Jobs : fetches[j] = 0 /\ seen[j].round = 0

C6_Witness == pc = "exited" /\ Discovered = {} /\ exitCode = 0

\* C7: a job gets one verdict and leaves the active set for good: no job
\* is both Succeeded and in the failed list, the failed list has no job
\* twice, a job with a verdict is not active, every discovered job is
\* active or has a verdict while the loop runs, and verdicts are kept.
C7_State ==
    /\ succeeded \cap FailedNames = {}
    /\ Cardinality(FailedNames) = Len(failed)
    /\ Active \cap (succeeded \cup FailedNames) = {}
    /\ Cardinality(Names(items)) = Len(items)
    /\ Cardinality(Names(remaining)) = Len(remaining)
    /\ (pc \in Polling /\ rounds > 0) =>
           Discovered = Active \cup succeeded \cup FailedNames

C7_Step ==
    /\ succeeded \subseteq succeeded'
    /\ FailedNames \subseteq FailedNames'
    /\ Len(failed) <= Len(failed')
    /\ \A j \in succeeded \cup FailedNames : j \notin Active'

C7_OneVerdict == []C7_State /\ [][C7_Step]_vars

\* a job got its verdict in round 1 and another is still active in a
\* later round
C7_Witness ==
    /\ pc = "for_check"
    /\ rounds >= 2
    /\ \E j \in FailedNames : seen[j].round = 1
    /\ Active # {}

\* C8: the verdict of a job and the round of its verdict are those its
\* own observations and RETRIES give (the tracker solo reads nothing
\* else); a failed job does not stop the polling: a job without a verdict
\* stays active and the report is only reached when every job has one; a
\* job succeeding and a job failing in round 1 end in exit code 1.
C8_NoInterference ==
    /\ \A j \in Discovered :
          /\ Verdict(j) = solo[j].verdict
          /\ seen[j].round = solo[j].round
          /\ (pc \in Polling /\ rounds > 0 /\ Verdict(j) = "Pending")
                => j \in Active
          /\ pc \in {"report", "exited"} => Verdict(j) # "Pending"
    /\ \A j, k \in Discovered :
          (/\ pc = "exited"
           /\ seen[j].round = 1 /\ j \in succeeded
           /\ seen[k].round = 1 /\ SawComplete(k)
           /\ seen[k].status.succeeded = 0)
              => exitCode = 1 /\ k \in FailedNames

C8_Witness ==
    /\ pc = "exited"
    /\ rounds = 1
    /\ exitCode = 1
    /\ \E j, k \in Discovered :
          /\ j \in succeeded
          /\ k \in FailedNames /\ SawComplete(k)

\* a failed job of round 1 and another job classified in a later round
C8_WitnessLater ==
    \E j, k \in Discovered :
        /\ k \in FailedNames /\ seen[k].round = 1
        /\ j \in succeeded /\ seen[j].round > 1

\* C9: the run sleeps after a round exactly when a job is left pending,
\* so the sleeps are the rounds minus one when the loop ends, and a
\* single job succeeding in round k ends the run with exit code 0 after
\* k - 1 sleeps.  (Counts are followed below Cap.)
C9_Sleeps ==
    rounds < Cap =>
        /\ pc = "for_check" => sleeps = rounds - 1
        /\ pc = "for_refresh" =>
              sleeps = IF remaining # <<>> THEN rounds ELSE rounds - 1
        /\ pc = "while" =>
              sleeps = IF items # <<>> \/ rounds = 0 THEN rounds
                       ELSE rounds - 1
        /\ (pc \in {"report", "exited"} /\ rounds > 0) => sleeps = rounds - 1
        /\ \A j \in Jobs :
              (pc = "exited" /\ Discovered = {j} /\ j \in succeeded)
                 => exitCode = 0 /\ sleeps = seen[j].round - 1

\* one job succeeding in round 3: 2 sleeps
C9_Witness ==
    /\ pc = "exited"
    /\ Discovered = {1}
    /\ 1 \in succeeded
    /\ RETRIES = 3
    /\ seen[1].round = 3
    /\ sleeps = 2
    /\ exitCode = 0

\* C10: a status fetch that fails during polling counts as a running
\* observation: the run goes on with the next job, and the job is carried
\* to the next round with one retry less, or put in the failed list when
\* that was its last.  (A step of the refresh loop that fetches no
\* status is a failed fetch.)
C10_Step ==
    (pc = "for_refresh" /\ i <= Len(remaining) /\ fetches' = fetches) =>
        /\ pc' = "for_refresh"
        /\ exitCode' = exitCode
        /\ i' = i + 1
        /\ LET n == remaining[i].job.name
               r == remaining[i].retries - 1
           IN  IF r = 0
               THEN n \in FailedNames'
               ELSE /\ Len(items') = Len(items) + 1
                    /\ items'[Len(items')].job.name = n
                    /\ items'[Len(items')].retries = r

C10_FetchFailureRetried == [][C10_Step]_vars

\* C11: when the loop ends with a non-empty failed list, the details of
\* every job of the failed list have been printed, in the order of the
\* list, when the run signals failure.
C11_AllFailedPrinted ==
    (ExitedAfterPolling /\ failed # <<>>) =>
        /\ exitCode = 1
        /\ pprinted = [k \in 1..Len(failed) |-> failed[k].name]

\* what the code does: the first failed job only
C11_FirstFailedPrinted ==
    (ExitedAfterPolling /\ failed # <<>>) =>
        /\ exitCode = 1
        /\ pprinted = <<failed[1].name>>

\* C12: a configuration failure of the start-up (namespace unreadable,
\* pod not retrievable, no 'app' label; also credentials not loadable)
\* ends the run at the statement that meets it, with a non-zero exit
\* code: no job is discovered or polled, there is no sleep, no verdict
\* and no report.
C12_ConfigurationFailureAborts ==
    fault # "none" =>
        /\ pc \in UpTo(fault) \cup {"aborted"}
        /\ pc = "aborted" => exitCode = 1
        /\ pc # "aborted" => exitCode = -1
        /\ items = <<>> /\ remaining = <<>> /\ failed = <<>>
        /\ succeeded = {} /\ pprinted = <<>>
        /\ rounds = 0 /\ sleeps = 0
        /\ Discovered = {}
        /\ \A j \in Jobs : fetches[j] = 0 /\ seen[j].round = 0

C12_Witness == pc = "aborted" /\ fault = "namespace" /\ exitCode = 1

C12_WitnessLabel == pc = "aborted" /\ fault = "app_label" /\ exitCode = 1

\* C13: for every RETRIES >= 0, the retries of every job of the active
\* set (the items not classified yet, the remaining list) are >= 0 in
\* every state of the polling loop, and >= 1 when a round starts.
C13_AttemptsNonNegative ==
    /\ pc = "for_check" =>
          /\ \A k \in i..Len(items) : items[k].retries >= 0
          /\ i = 1 => \A k \in 1..Len(items) : items[k].retries >= 1
    /\ pc = "while" => \A k \in 1..Len(items) : items[k].retries >= 1
    /\ pc = "for_refresh" => \A k \in 1..Len(items) : items[k].retries >= 1
    /\ pc \in {"for_check", "for_refresh"} =>
          \A k \in 1..Len(remaining) : remaining[k].retries >= 0

\* C13 for a positive budget (the part of C13 the code satisfies)
C13_PositiveBudget == RETRIES >= 1 => C13_AttemptsNonNegative

\* C14: a round classifies all its jobs, then the run sleeps once (when
\* a job is left), then it fetches each remaining job once, carrying the
\* retries check_success returned, and only then starts the next round;
\* round 1 classifies the statuses of the discovery answer, with no fetch
\* of a job; a job with a verdict is not fetched again.  (Counts are
\* followed below Cap.)
C14_State ==
    rounds < Cap =>
        /\ pc = "for_check" =>
              /\ \A k \in 1..Len(items) :
                    fetches[items[k].job.name] = rounds - 1
              /\ \A k \in 1..Len(remaining) :
                    /\ remaining[k].retries = seen[remaining[k].job.name].retries
                    /\ seen[remaining[k].job.name].round = rounds
        /\ pc = "for_refresh" =>
              /\ Len(items) = i - 1
              /\ remaining # <<>> => sleeps = rounds
              /\ \A k \in 1..Len(remaining) :
                    LET n == remaining[k].job.name
                    IN  IF k < i
                        THEN /\ items[k].job.name = n
                             /\ items[k].retries = remaining[k].retries
                             /\ items[k].retries = seen[n].retries
                             /\ fetches[n] = rounds
                        ELSE fetches[n] = rounds - 1
        /\ \A j \in succeeded \cup FailedNames :
              fetches[j] = seen[j].round - 1

C14_Step ==
    rounds < Cap =>
        /\ (pc = "for_check" /\ pc' # "for_check") =>
              /\ i > Len(items)
              /\ pc' = "for_refresh"
              /\ sleeps' = IF remaining # <<>> THEN sleeps + 1 ELSE sleeps
        /\ (pc = "for_refresh" /\ pc' = "while") =>
              /\ Len(items) = Len(remaining)
              /\ sleeps' = sleeps
        /\ fetches' # fetches => pc = "for_refresh" /\ sleeps = rounds
        /\ sleeps' # sleeps => pc = "for_check"
        /\ seen' # seen => pc = "for_check" /\ sleeps = rounds - 1

C14_RoundOrder == []C14_State /\ [][C14_Step]_vars

\* round 2 of a job fetched once, with one retry less, next to a job
\* that got its verdict in round 1
C14_Witness ==
    /\ pc = "for_check"
    /\ rounds = 2
    /\ i = 1
    /\ Len(items) = 1
    /\ items[1].retries = RETRIES - 1
    /\ fetches[items[1].job.name] = 1
    /\ sleeps = 1
    /\ \E j \in succeeded \cup FailedNames : fetches[j] = 0

\* C15: the classification of a job whose status is not terminal (no
\* 'conditions' key, or conditions none of which is Complete/'True', such
\* as Complete/'False' or Failed/'True') takes exactly 1 from its retries
\* and changes nothing else: the job goes to remaining with retries - 1,
\* or to the failed list when that is 0, which is after RETRIES such
\* observations.  (Retries are followed down to -MaxDebt.)
NonTerminal(s) ==
    \/ ~s.hasConditions
    \/ \A k \in 1..Len(s.conditions) :
          ~(s.conditions[k].type = "Complete" /\ s.conditions[k].status = "True")

C15_Step ==
    (/\ pc = "for_check" /\ i <= Len(items) /\ i' = i + 1
     /\ NonTerminal(items[i].job.status)
     /\ items[i].retries > -MaxDebt)
       => LET job == items[i].job
              r   == items[i].retries - 1
          IN  /\ seen'[job.name].retries = r
              /\ IF r = 0
                 THEN /\ failed' = Append(failed, job)
                      /\ remaining' = remaining
                      /\ obs'[job.name] = RETRIES
                 ELSE /\ remaining' = Append(remaining, Item(job, r))
                      /\ failed' = failed
              /\ UNCHANGED <<pc, env, ciVars, items, exitCode, succeeded, pprinted,
                             rounds, sleeps, fetches>>
              /\ \A j \in Jobs \ {job.name} :
                    /\ seen'[j] = seen[j]
                    /\ obs'[j] = obs[j]
                    /\ solo'[j] = solo[j]

C15_NonTerminalDecrements == [][C15_Step]_vars

\* a job seen with a Failed/'True' condition and retries to spare is
\* pending, with one retry less
C15_Witness ==
    /\ pc = "for_check"
    /\ \E k \in 1..Len(remaining) :
          /\ remaining[k].job.status = StFailedTrue
          /\ remaining[k].retries = RETRIES - 1
          /\ remaining[k].retries >= 1
          /\ remaining[k].job.name \notin FailedNames

\* C16: with RETRIES >= 1, every job of round r has the retries
\* RETRIES - (r - 1) when the round classifies it; so the jobs that use
\* up their budget all do so in round RETRIES, and a run has at most
\* RETRIES rounds and RETRIES - 1 sleeps.
C16_SameAttempts ==
    RETRIES >= 1 =>
        /\ pc = "for_check" =>
              \A k \in 1..Len(items) :
                 items[k].retries = RETRIES - (rounds - 1)
        /\ pc \in {"while", "for_refresh"} =>
              \A k \in 1..Len(items) : items[k].retries = RETRIES - rounds
        /\ \A j \in FailedNames : OnlyRunning(j) => seen[j].round = RETRIES
        /\ rounds <= RETRIES
        /\ sleeps <= RETRIES - 1

\* two jobs using up a budget of 3 together, in round 3
C16_Witness ==
    /\ pc = "exited"
    /\ RETRIES = 3
    /\ rounds = 3
    /\ sleeps = 2
    /\ Cardinality({j \in FailedNames : OnlyRunning(j)}) >= 2

\* C17: on the master branch the steps of ci.py start in the order
\* docker-compose up, docker ps, keystone logs, wait, smoke tests, then
\* the handler of the event (build for pull_request; push, then readme,
\* for push); no step starts after a subprocess returned non-zero, so
\* build, push and readme only start when every earlier step returned 0.
C17_Order ==
    /\ travis.branch # "master" => cmds = <<>>
    /\ \A k \in 1..Len(cmds) :
          /\ IF k <= Len(MainSteps)
             THEN cmds[k].cmd = MainSteps[k]
             ELSE /\ TailRank(cmds[k].cmd) > 0
                  /\ k > Len(MainSteps) + 1 =>
                        TailRank(cmds[k - 1].cmd) < TailRank(cmds[k].cmd)
          /\ cmds[k].cmd = "dbuild build" => travis.event = "pull_request"
          /\ cmds[k].cmd \in {"docker login", "dbuild push", "dbuild readme"}
                => travis.event = "push"
          /\ k < Len(cmds) => cmds[k].rc = 0
    /\ ciExit = 0 => \A k \in 1..Len(cmds) : cmds[k].rc = 0
    /\ ciExit \notin {-1, 0} => cmds # <<>> /\ cmds[Len(cmds)].rc # 0

\* C17 as stated: the script exits with the return code of the
\* subprocess that returned non-zero.
C17_ExitsWithReturnCode ==
    /\ C17_Order
    /\ (cmds # <<>> /\ cmds[Len(cmds)].rc # 0) =>
          cpc = "exited" /\ ciExit = cmds[Len(cmds)].rc

\* C17 as amended: the exit code is the return code for the docker,
\* docker-compose and dbuild steps, and 1 for git diff, git log and
\* docker login.
C17_StepsInOrder ==
    /\ C17_Order
    /\ (cmds # <<>> /\ cmds[Len(cmds)].rc # 0) =>
          /\ cpc = "exited"
          /\ ciExit = IF cmds[Len(cmds)].cmd \in ExitsWithOne
                      THEN 1 ELSE cmds[Len(cmds)].rc

\* the smoke tests return 2: exit code 2, nothing started after them
C17_Witness ==
    /\ cpc = "exited"
    /\ Len(cmds) = 9
    /\ cmds[9].cmd = "docker run smoke-tests"
    /\ cmds[9].rc = 2
    /\ ciExit = 2

\* a push and a readme after 12 steps that returned 0
C17_WitnessPush ==
    /\ cpc = "exited"
    /\ ciExit = 0
    /\ \E j, k \in 1..Len(cmds) :
          /\ j < k
          /\ cmds[j].cmd = "dbuild push"
          /\ cmds[k].cmd = "dbuild readme"

\* C18: a push command is only issued with TRAVIS_SECURE_ENV_VARS "true"
\* and a non-empty push list, and its modules are exactly: the arguments
\* of the '!push <module>' tags, and the dirty modules when there is a
\* bare '!push' tag or when their build.yml is a changed file; a dirty
\* module with neither is not pushed, unless a '!push <module>' tag
\* names it (C18 as amended).
PushTagArgs == {t[2] : t \in {u \in Range(tags) : u[1] = "push" /\ u[2] # None}}

BuildYmlChanged(m) == <<m, "build.yml">> \in files

C18_PushList ==
    \A k \in 1..Len(cmds) :
        cmds[k].cmd = "dbuild push" =>
            /\ travis.secure = "true"
            /\ travis.event = "push"
            /\ cmds[k].args # <<>>
            /\ Range(cmds[k].args) =
                  PushTagArgs \cup
                  {m \in Range(modules) :
                      <<"push", None>> \in Range(tags) \/ BuildYmlChanged(m)}
            /\ \A m \in Range(modules) :
                  (/\ <<"push", None>> \notin Range(tags)
                   /\ ~BuildYmlChanged(m)
                   /\ m \notin PushTagArgs)
                     => m \notin Range(cmds[k].args)
            /\ \A j \in 1..Len(cmds) : cmds[j].cmd = "dbuild push" => j = k

\* C18 as stated: a dirty module without a bare '!push' tag and without
\* its build.yml among the changed files is never pushed.
C18_DirtyWithNeitherNotPushed ==
    \A k \in 1..Len(cmds) :
        cmds[k].cmd = "dbuild push" =>
            /\ travis.secure = "true"
            /\ cmds[k].args # <<>>
            /\ \A m \in Range(modules) :
                  (<<"push", None>> \notin Range(tags) /\ ~BuildYmlChanged(m))
                     => m \notin Range(cmds[k].args)

\* c is pushed for its tag, a for its build.yml, and the dirty module b,
\* with a build.yml changed below it only, is not
C18_Witness ==
    \E k \in 1..Len(cmds) :
        /\ cmds[k].cmd = "dbuild push"
        /\ Range(cmds[k].args) = {"a", "c"}
        /\ "b" \in Range(modules)
        /\ <<"b", "sub", "build.yml">> \in files
        /\ <<"push", None>> \notin Range(tags)

====
